---- MODULE Spec2Model ----
(***************************************************************************)
(* Reel navigation and session-gated link dispatch of src/app/page.tsx.    *)
(*                                                                         *)
(* page.tsx holds two revisions of the Page component, one after the       *)
(* other: the "modern" one (lines 1-285: search box, Previous/Next         *)
(* buttons, keyboard, Close button) and the "hardened" one (lines 287-470: *)
(* wheel and touch only).  The variable `variant` fixes which revision a   *)
(* behaviour runs; every handler is translated per revision.               *)
(*                                                                         *)
(* One step of Spec is one browser event: the handler, the re-render React *)
(* performs for the state it set, and the clamp effect that follows the    *)
(* render, with the second render that effect causes.  The cursor values   *)
(* read by those render passes are kept in last.rendered.                  *)
(***************************************************************************)
EXTENDS Integers, Sequences, FiniteSets, TLC

\* ---------------------------------------------------------------------
\* Bounds of the model
\* ---------------------------------------------------------------------
MaxSponsorOpens == 2
MaxDirLen == 2
MaxQueryLen == 2
MaxWheelMoves == 2

\* ---------------------------------------------------------------------
\* Program constants
\* ---------------------------------------------------------------------
WheelThreshold == 10
TouchThreshold == 40

adUrl == "https://otieu.com/4/9449507"
onceKey == "monetag_interstitial_once"

\* window.sessionStorage.getItem returns null for an absent key
NULL == "null"
\* interstitialFor / current: 0 is null, i >= 1 is the object MODELS[i]
NoModel == 0

MODELS ==
  << [name |-> "Charvi Bhatt",
      url  |-> "https://link-shortner-indol-nu.vercel.app/v0riwp",
      tags |-> <<"actress", "biography", "reels">>],
     [name |-> "Arushi Chatterjee",
      url  |-> "https://link-shortner-indol-nu.vercel.app/gpvegn",
      tags |-> <<"actress", "bio">>],
     [name |-> "Your Creator 3",
      url  |-> "#",
      tags |-> <<"new">>] >>

\* ---------------------------------------------------------------------
\* Strings: String.prototype.trim, toLowerCase, includes
\* ---------------------------------------------------------------------
UpperChars == "ABCDEFGHIJKLMNOPQRSTUVWXYZ"
LowerChars == "abcdefghijklmnopqrstuvwxyz"

CharAt(s, i) == SubSeq(s, i, i)

IsSpace(c) == c \in {" ", "\t", "\n"}

RECURSIVE TrimStart(_)
TrimStart(s) ==
  IF Len(s) > 0 /\ IsSpace(CharAt(s, 1)) THEN TrimStart(SubSeq(s, 2, Len(s))) ELSE s

RECURSIVE TrimEnd(_)
TrimEnd(s) ==
  IF Len(s) > 0 /\ IsSpace(CharAt(s, Len(s))) THEN TrimEnd(SubSeq(s, 1, Len(s) - 1)) ELSE s

\* the query used as typed
NoTrim(s) == s

trim(s) == TrimEnd(TrimStart(s))

LowerChar(c) ==
  IF \E k \in 1..Len(UpperChars) : CharAt(UpperChars, k) = c
  THEN CharAt(LowerChars, CHOOSE k \in 1..Len(UpperChars) : CharAt(UpperChars, k) = c)
  ELSE c

RECURSIVE toLowerCase(_)
toLowerCase(s) ==
  IF Len(s) = 0 THEN s ELSE LowerChar(CharAt(s, 1)) \o toLowerCase(SubSeq(s, 2, Len(s)))

includes(t, q) ==
  \E k \in 1..(Len(t) - Len(q) + 1) : SubSeq(t, k, k + Len(q) - 1) = q

\* ---------------------------------------------------------------------
\* Filter Engine (useMemo `filtered`).  A filtered list is given by the
\* positions in the directory of the objects it holds, in list order.
\* ---------------------------------------------------------------------
AllOf(D) == [k \in 1..Len(D) |-> k]

\* [m.name, ...(m.tags || [])].some((t) => t.toLowerCase().includes(q))
MatchesQuery(m, q) ==
  \/ includes(toLowerCase(m.name), q)
  \/ \E k \in 1..Len(m.tags) : includes(toLowerCase(m.tags[k]), q)

\* Array.prototype.filter from position k on
RECURSIVE ArrayFilter(_, _, _)
ArrayFilter(D, q, k) ==
  IF k > Len(D) THEN <<>>
  ELSE (IF MatchesQuery(D[k], q) THEN <<k>> ELSE <<>>) \o ArrayFilter(D, q, k + 1)

\* the filter without its fallback to the full directory
NoFallbackResult(D, result) == result

\* return result.length > 0 ? result : [...MODELS]
FilterResult(D, result) == IF Len(result) > 0 THEN result ELSE AllOf(D)

filtered(D, qry) ==
  LET q == toLowerCase(trim(qry))
  IN  IF q = "" THEN AllOf(D) ELSE FilterResult(D, ArrayFilter(D, q, 1))

\* ---------------------------------------------------------------------
\* Navigation Cursor
\* ---------------------------------------------------------------------
Max(a, b) == IF a >= b THEN a ELSE b
Abs(a) == IF a < 0 THEN -a ELSE a

\* queries typed into the search box
QuerySet == {"", "bio", " NEW ", "zzz"}

\* `filtered` of the render with query qry (the useMemo value), over MODELS
VisibleTable == [qry \in QuerySet |-> filtered(MODELS, qry)]
visible(qry) == VisibleTable[qry]

cycleLen(qry) == Max(Len(visible(qry)), 1)

\* The wheel/keyboard and touch effects have [] deps: their handlers keep the
\* next/prev (and so the cycleLen) of the mount render, where query = "".
mountCycleLen == cycleLen("")

next(i, len) == (i + 1) % len
prev(i, len) == (i - 1 + len) % len

\* useEffect(..., [filtered, index]): the cursor after the effect has run
ClampEffect(v, i, len) ==
  IF v = "modern"
  THEN IF len = 0 THEN 0 ELSE IF i >= len \/ i < 0 THEN 0 ELSE i
  ELSE IF i >= len THEN 0 ELSE i

\* const current = filtered.length > 0 ? (filtered[index] ?? null) : null
current(qry, i) ==
  LET f == visible(qry)
  IN  IF Len(f) > 0 /\ i + 1 \in 1..Len(f) THEN f[i + 1] ELSE NoModel

\* ---------------------------------------------------------------------
\* Session Gate
\* ---------------------------------------------------------------------
\* a catch block that answers as if the flag were set
safeGetSessionFailClosed(store, fails) == IF fails THEN "1" ELSE store

\* try { return window.sessionStorage.getItem(k) } catch { return null }
safeGetSession(store, fails) == IF fails THEN NULL ELSE store

\* a catch block that drops the key when the write throws
safeSetSessionDropping(store, v, fails) == IF fails THEN NULL ELSE v

\* try { window.sessionStorage.setItem(k, v) } catch {}
safeSetSession(store, v, fails) == IF fails THEN store ELSE v

\* the gate taken as passed without reading the flag
hasBeenShownAlways(store, fails) == TRUE

\* the flag compared with a literal that is never written
hasBeenShownWrongLiteral(store, fails) == safeGetSession(store, fails) = "true"

\* const shown = safeGetSession(onceKey) === "1"
hasBeenShown(store, fails) == safeGetSession(store, fails) = "1"

\* ---------------------------------------------------------------------
\* State
\* ---------------------------------------------------------------------
VARIABLES
  variant,          \* "modern" | "hardened": the revision of Page that runs
  storageMode,      \* "working" | "failing": may sessionStorage calls throw
  index,            \* useState(0)
  query,            \* useState("")
  interstitialFor,  \* useState<Model | null>(null)
  wheelLock,        \* useRef(false)
  touchY,           \* useRef<number | null>(null): <<>> is null, <<y>> a number
  timers,           \* pending setTimeout callbacks of onWheel
  storage,          \* sessionStorage[onceKey]
  sponsorOpens,     \* window.open(adUrl) calls of the session so far
  last,             \* the event handled last, with its input, what it did, the
                    \* state it started from, whether it came after a dismiss,
                    \* and the next/prev calls wheel events have made since
                    \* the wheel lock was last released
  fD, fq, fOut, fpc \* inputs and output of one evaluation of `filtered`

appVars == <<variant, storageMode, index, query, interstitialFor, wheelLock,
             touchY, timers, storage, sponsorOpens, last>>
filterVars == <<fD, fq, fOut, fpc>>
vars == <<appVars, filterVars>>

Variants == {"modern", "hardened"}
StorageModes == {"working", "failing"}

\* event.deltaY of a wheel event
WheelDeltas == {-(WheelThreshold + 1), -WheelThreshold, 0, WheelThreshold, WheelThreshold + 1}
\* clientY of the first touch of a touch event; <<>> when the list is empty
TouchInputs == {<<>>, <<0>>, <<TouchThreshold>>, <<TouchThreshold + 1>>}
Keys == {"ArrowDown", "ArrowUp", "Enter"}

\* may this sessionStorage call throw
Failures == IF storageMode = "working" THEN {FALSE} ELSE BOOLEAN

Open(url) == [kind |-> "open", arg |-> url]
SetItem(v) == [kind |-> "setItem", arg |-> v]

IsOpen(e) == e.kind = "open"
IsSetItem(e) == e.kind = "setItem"
IsSponsorOpen(e) == e.kind = "open" /\ e.arg = adUrl
Opens(effects) == SelectSeq(effects, IsOpen)

HasUrl(m) == m # NoModel /\ MODELS[m].url # ""

Pre ==
  [index |-> index, target |-> interstitialFor, store |-> storage, query |-> query,
   lock |-> wheelLock, touchY |-> touchY]

Event(op, rec, nav, effects, rendered) ==
  [op |-> op, rec |-> rec, nav |-> nav, effects |-> effects,
   rendered |-> rendered, pre |-> Pre, afterDismiss |-> last.op = "dismiss",
   input |-> <<>>, failed |-> FALSE, wheelMoves |-> last.wheelMoves,
   afterTimer |-> last.op = "timer"]

\* the cursor values read by `current` in the render passes that follow a
\* handler which left the state at (i1, q1, t1): one pass if the state
\* changed, a second one if the clamp effect then calls setIndex(0)
Renders(i1, q1, t1) ==
  LET i2 == ClampEffect(variant, i1, Len(visible(q1)))
  IN  (IF i1 # index \/ q1 # query \/ t1 # interstitialFor THEN <<i1>> ELSE <<>>)
      \o (IF i2 # i1 THEN <<i2>> ELSE <<>>)

NoEvent ==
  [op |-> "mount", rec |-> NoModel, nav |-> "none", effects |-> <<>>,
   rendered |-> <<0>>,
   pre |-> [index |-> 0, target |-> NoModel, store |-> NULL, query |-> "",
            lock |-> FALSE, touchY |-> <<>>],
   afterDismiss |-> FALSE, input |-> <<>>, failed |-> FALSE, wheelMoves |-> 0,
   afterTimer |-> FALSE]

FilterIdle == fD = <<>> /\ fq = "" /\ fOut = <<>> /\ fpc = "idle"

Init ==
  /\ variant \in Variants
  /\ storageMode \in StorageModes
  /\ index = 0
  /\ query = ""
  /\ interstitialFor = NoModel
  /\ wheelLock = FALSE
  /\ touchY = <<>>
  /\ timers = 0
  /\ storage = NULL
  /\ sponsorOpens = 0
  /\ last = NoEvent
  /\ FilterIdle

\* ---------------------------------------------------------------------
\* Cursor events
\* ---------------------------------------------------------------------
Moved(nav, i, len) ==
  IF nav = "next" THEN next(i, len) ELSE IF nav = "prev" THEN prev(i, len) ELSE i

Min(a, b) == IF a <= b THEN a ELSE b

\* setIndex(updater) of next/prev with modulus len, then render and clamp
Navigate(op, input, nav, len) ==
  LET i1 == Moved(nav, index, len)
  IN  /\ index' = ClampEffect(variant, i1, Len(visible(query)))
      /\ last' = [Event(op, NoModel, nav, <<>>, Renders(i1, query, interstitialFor))
                    EXCEPT !.input = input,
                           !.wheelMoves = IF op = "wheel" /\ nav # "none"
                                          THEN Min(@ + 1, MaxWheelMoves) ELSE @]

\* onChange={(e) => setQuery(e.target.value)}
setQuery(q) ==
  /\ variant = "modern"
  /\ query' = q
  /\ index' = ClampEffect(variant, index, Len(visible(q)))
  /\ last' = [Event("setQuery", NoModel, "none", <<>>, Renders(index, q, interstitialFor))
                EXCEPT !.input = <<q>>]
  /\ UNCHANGED <<variant, storageMode, interstitialFor, wheelLock, touchY, timers,
                 storage, sponsorOpens, filterVars>>

\* <button onClick={next}> / <button onClick={prev}>: the closures of the
\* latest render
ButtonNav(nav) ==
  /\ variant = "modern"
  /\ Navigate("button", <<nav>>, nav, cycleLen(query))
  /\ UNCHANGED <<variant, storageMode, query, interstitialFor, wheelLock, touchY,
                 timers, storage, sponsorOpens, filterVars>>

KeyNav(key) ==
  IF key = "ArrowDown" THEN "next" ELSE IF key = "ArrowUp" THEN "prev" ELSE "none"

\* a keyboard handler that honours the wheel lock
KeyAcceptedUnlocked(lock) == ~lock

\* onKey does not read wheelLock.current
KeyAccepted(lock) == TRUE

onKey(key) ==
  /\ variant = "modern"
  /\ Navigate("key", <<key>>, IF KeyAccepted(wheelLock) THEN KeyNav(key) ELSE "none",
              mountCycleLen)
  /\ UNCHANGED <<variant, storageMode, query, interstitialFor, wheelLock, touchY,
                 timers, storage, sponsorOpens, filterVars>>

WheelNav(deltaY) ==
  IF deltaY > WheelThreshold THEN "next"
  ELSE IF deltaY < -WheelThreshold THEN "prev" ELSE "none"

\* onWheel without `if (wheelLock.current) return`
WheelAcceptedAlways(lock) == TRUE

\* if (wheelLock.current) return
WheelAccepted(lock) == ~lock

onWheel(deltaY) ==
  /\ IF ~WheelAccepted(wheelLock)
     THEN /\ Navigate("wheel", <<deltaY>>, "none", mountCycleLen)
          /\ UNCHANGED <<wheelLock, timers>>
     ELSE /\ wheelLock' = TRUE
          /\ timers' = timers + 1
          /\ Navigate("wheel", <<deltaY>>, WheelNav(deltaY), mountCycleLen)
  /\ UNCHANGED <<variant, storageMode, query, interstitialFor, touchY, storage,
                 sponsorOpens, filterVars>>

\* a timer callback that leaves the lock as it finds it
ResetCallbackKeeping(lock) == lock

\* () => (wheelLock.current = false)
ResetCallback(lock) == FALSE

\* setTimeout(() => (wheelLock.current = false), 400)
TimerFire ==
  /\ timers > 0
  /\ timers' = timers - 1
  /\ wheelLock' = ResetCallback(wheelLock)
  /\ last' = [Event("timer", NoModel, "none", <<>>, <<>>) EXCEPT !.wheelMoves = 0]
  /\ UNCHANGED <<variant, storageMode, index, query, interstitialFor, touchY, storage,
                 sponsorOpens, filterVars>>

onTouchStart(y) ==
  /\ touchY' = y
  /\ last' = [Event("touchstart", NoModel, "none", <<>>, <<>>) EXCEPT !.input = y]
  /\ UNCHANGED <<variant, storageMode, index, query, interstitialFor, wheelLock, timers,
                 storage, sponsorOpens, filterVars>>

\* does the touch-end navigate, and where
TouchNav(v, dy) ==
  IF v = "modern"
  THEN IF Abs(dy) < TouchThreshold THEN "none" ELSE IF dy < 0 THEN "next" ELSE "prev"
  ELSE IF Abs(dy) > TouchThreshold THEN (IF dy < 0 THEN "next" ELSE "prev") ELSE "none"

\* is touchY.current = null reached
TouchResets(v, dy) == IF v = "modern" THEN Abs(dy) >= TouchThreshold ELSE TRUE

onTouchEnd(y) ==
  /\ IF touchY = <<>> \/ y = <<>>
     THEN /\ Navigate("touchend", y, "none", mountCycleLen)
          /\ UNCHANGED touchY
     ELSE LET dy == y[1] - touchY[1]
          IN  /\ Navigate("touchend", y, TouchNav(variant, dy), mountCycleLen)
              /\ touchY' = IF TouchResets(variant, dy) THEN <<>> ELSE touchY
  /\ UNCHANGED <<variant, storageMode, query, interstitialFor, wheelLock, timers,
                 storage, sponsorOpens, filterVars>>

\* ---------------------------------------------------------------------
\* Link Dispatcher
\* ---------------------------------------------------------------------
\* openLink without the return after setInterstitialFor(m)
OpenLinkEffectsNoReturn(m, shown) ==
  IF ~HasUrl(m) THEN <<>> ELSE <<Open(MODELS[m].url)>>

\* openLink: the window.open calls it makes
OpenLinkEffects(m, shown) ==
  IF ~HasUrl(m) THEN <<>>
  ELSE IF adUrl # "" /\ ~shown THEN <<>>
  ELSE <<Open(MODELS[m].url)>>

\* openLink: interstitialFor after it
OpenLinkTarget(m, shown, target) ==
  IF ~HasUrl(m) THEN target
  ELSE IF adUrl # "" /\ ~shown THEN m
  ELSE target

\* <button onClick={() => openLink(current)}>, rendered while current is not
\* null; it stays reachable from the keyboard while the interstitial is up
openLink ==
  /\ current(query, index) # NoModel
  /\ \E fails \in Failures :
       LET m == current(query, index)
           shown == hasBeenShown(storage, fails)
           t1 == OpenLinkTarget(m, shown, interstitialFor)
       IN  /\ interstitialFor' = t1
           /\ last' = [Event("openLink", m, "none", OpenLinkEffects(m, shown),
                             Renders(index, query, t1))
                         EXCEPT !.failed = fails]
  /\ UNCHANGED <<variant, storageMode, index, query, wheelLock, touchY, timers, storage,
                 sponsorOpens, filterVars>>

\* proceed opening the biography before the sponsor
ProceedEffectsSwapped(v, m) ==
  IF ~HasUrl(m) THEN <<>>
  ELSE <<Open(MODELS[m].url), SetItem("1"), Open(adUrl)>>

\* proceed without safeSetSession(onceKey, "1")
ProceedEffectsNoMark(v, m) ==
  IF ~HasUrl(m) THEN <<>>
  ELSE <<Open(adUrl), Open(MODELS[m].url)>>

\* proceed: its window.open and sessionStorage.setItem calls, in order
ProceedEffects(v, m) ==
  IF v = "modern"
  THEN IF ~HasUrl(m) THEN <<>>
       ELSE (IF adUrl # "" THEN <<Open(adUrl)>> ELSE <<>>)
            \o <<SetItem("1")>> \o <<Open(MODELS[m].url)>>
  ELSE (IF adUrl # "" THEN <<Open(adUrl)>> ELSE <<>>)
       \o <<SetItem("1")>>
       \o (IF HasUrl(m) THEN <<Open(MODELS[m].url)>> ELSE <<>>)

\* sessionStorage[onceKey] after the calls of `effects`, the setItem throwing
\* or not
StoreAfter(store, effects, fails) ==
  IF \E k \in 1..Len(effects) : IsSetItem(effects[k])
  THEN safeSetSession(store, "1", fails)
  ELSE store

\* proceed continuing to the record on screen
ProceedTargetCurrent(target, cur) == cur

\* const m = interstitialFor
ProceedTarget(target, cur) == target

\* the body of proceed
ProceedHandler ==
  /\ sponsorOpens < MaxSponsorOpens
  /\ \E fails \in Failures :
       LET m == ProceedTarget(interstitialFor, current(query, index))
           effects == ProceedEffects(variant, m)
       IN  /\ interstitialFor' = NoModel
           /\ storage' = StoreAfter(storage, effects, fails)
           /\ sponsorOpens' = sponsorOpens + Len(SelectSeq(effects, IsSponsorOpen))
           /\ last' = [Event("proceed", m, "none", effects, Renders(index, query, NoModel))
                         EXCEPT !.failed = fails]
  /\ UNCHANGED <<variant, storageMode, index, query, wheelLock, touchY, timers,
                 filterVars>>

\* <button onClick={proceed}>, rendered while interstitialFor is not null
proceed ==
  /\ interstitialFor # NoModel
  /\ ProceedHandler

\* a Close button that also marks the gate
DismissEffectsMarking == <<SetItem("1")>>

\* Close button: the window.open and sessionStorage.setItem calls of its handler
DismissEffects == <<>>

\* Close button: onClick={() => setInterstitialFor(null)}
dismiss ==
  /\ variant = "modern"
  /\ interstitialFor # NoModel
  /\ interstitialFor' = NoModel
  /\ \E fails \in Failures : storage' = StoreAfter(storage, DismissEffects, fails)
  /\ last' = Event("dismiss", interstitialFor, "none", DismissEffects,
                   Renders(index, query, NoModel))
  /\ UNCHANGED <<variant, storageMode, index, query, wheelLock, touchY, timers,
                 sponsorOpens, filterVars>>

\* The page is loaded again in the same tab: Page is mounted afresh,
\* sessionStorage is kept.
Reload ==
  /\ index' = 0
  /\ query' = ""
  /\ interstitialFor' = NoModel
  /\ wheelLock' = FALSE
  /\ touchY' = <<>>
  /\ timers' = 0
  /\ last' = [Event("reload", NoModel, "none", <<>>, <<0>>) EXCEPT !.wheelMoves = 0]
  /\ UNCHANGED <<variant, storageMode, storage, sponsorOpens, filterVars>>

Next ==
  \/ \E q \in QuerySet : setQuery(q)
  \/ \E nav \in {"next", "prev"} : ButtonNav(nav)
  \/ \E key \in Keys : onKey(key)
  \/ \E deltaY \in WheelDeltas : onWheel(deltaY)
  \/ TimerFire
  \/ \E y \in TouchInputs : onTouchStart(y)
  \/ \E y \in TouchInputs : onTouchEnd(y)
  \/ openLink
  \/ proceed
  \/ dismiss
  \/ Reload

Spec == Init /\ [][Next]_vars

\* proceed() called with no interstitial target set: the race spec.md 4.5
\* asks proceed to survive; no button reaches it in Spec
proceedRace ==
  /\ interstitialFor = NoModel
  /\ ProceedHandler

RaceNext == Next \/ proceedRace

RaceSpec == Init /\ [][RaceNext]_vars

\* the event loop runs a pending setTimeout callback once its delay is over
LiveSpec == Init /\ [][Next]_vars /\ WF_vars(TimerFire)

\* ---------------------------------------------------------------------
\* The Filter Engine on its own: `filtered` evaluated over a directory and a
\* query drawn from bounded sets
\* ---------------------------------------------------------------------
QueryChars == {"a", "B", " "}

RECURSIVE StringsUpTo(_)
StringsUpTo(n) ==
  IF n = 0 THEN {""}
  ELSE LET S == StringsUpTo(n - 1) IN S \cup {s \o c : s \in S, c \in QueryChars}

FilterQueries == StringsUpTo(MaxQueryLen)

FilterRecords ==
  [name : {"a", "Ab", "b c"}, url : {"#"}, tags : {<<>>, <<"B">>, <<"x", "a b">>}]

RECURSIVE SeqsUpTo(_, _)
SeqsUpTo(S, n) ==
  IF n = 0 THEN {<<>>}
  ELSE LET T == SeqsUpTo(S, n - 1) IN T \cup {Append(t, x) : t \in T, x \in S}

FilterDirectories == SeqsUpTo(FilterRecords, MaxDirLen)

FilterInit ==
  /\ variant = "modern"
  /\ storageMode = "working"
  /\ index = 0
  /\ query = ""
  /\ interstitialFor = NoModel
  /\ wheelLock = FALSE
  /\ touchY = <<>>
  /\ timers = 0
  /\ storage = NULL
  /\ sponsorOpens = 0
  /\ last = NoEvent
  /\ fD \in FilterDirectories
  /\ fq \in FilterQueries
  /\ fOut = <<>>
  /\ fpc = "input"

\* one evaluation of the useMemo callback
EvalFiltered ==
  /\ fpc = "input"
  /\ fOut' = filtered(fD, fq)
  /\ fpc' = "done"
  /\ UNCHANGED <<appVars, fD, fq>>

FilterNext == EvalFiltered

FilterSpec == FilterInit /\ [][FilterNext]_vars

\* =====================================================================
\* Claims
\* =====================================================================
IsOpenLinkWithUrl(e) == e.op = "openLink" /\ HasUrl(e.rec)
ProceedCompleted == sponsorOpens > 0
UrlOf(m) == MODELS[m].url

\* C1: with the gate flag unset and no interstitial pending, openLink on a
\* record with a url makes that record the pending interstitial target, opens
\* nothing and writes nothing to the gate.
C1_OpenLinkEntersPending ==
  (IsOpenLinkWithUrl(last) /\ last.pre.store # "1" /\ last.pre.target = NoModel)
    => /\ interstitialFor = last.rec
       /\ last.effects = <<>>
       /\ storage = last.pre.store

C1_Witness ==
  /\ IsOpenLinkWithUrl(last) /\ last.pre.store # "1" /\ last.pre.target = NoModel
  /\ interstitialFor = last.rec
  /\ index > 0

\* what every proceed() on a pending target does: sponsor open, gate write,
\* target open, back to Idle
ProceedShape ==
  last.op = "proceed"
    => /\ last.pre.target # NoModel
       /\ last.rec = last.pre.target
       /\ last.effects = <<Open(adUrl), SetItem("1"), Open(UrlOf(last.rec))>>
       /\ interstitialFor = NoModel

\* C2 as stated: proceed() on a pending target opens the sponsor URL, then
\* marks the gate, then opens the target's url, and ends in Idle; once a
\* proceed() has completed, hasBeenShown() is true in every later state.
C2_ProceedAlwaysShown ==
  /\ ProceedShape
  /\ ProceedCompleted => \A fails \in Failures : hasBeenShown(storage, fails)

\* C2 amended: the same two opens and gate write in that order, ending in
\* Idle; hasBeenShown() is true ever after when sessionStorage calls do not
\* throw.
C2_ProceedShownWhenStorageWorks ==
  /\ ProceedShape
  /\ (ProceedCompleted /\ storageMode = "working") => hasBeenShown(storage, FALSE)

C2_Witness ==
  /\ last.op = "proceed" /\ last.pre.target # NoModel
  /\ Len(Opens(last.effects)) = 2
  /\ storageMode = "working" /\ hasBeenShown(storage, FALSE)

\* what an openLink that goes straight to the biography does
DirectOpen ==
  /\ last.effects = <<Open(UrlOf(last.rec))>>
  /\ interstitialFor = NoModel

\* C3 as stated: once a proceed() has completed in the session, every
\* openLink on a record with a url opens exactly that url and leaves no
\* interstitial target.
C3_DirectAfterProceed ==
  (ProceedCompleted /\ IsOpenLinkWithUrl(last)) => DirectOpen

\* C3 amended: the same, in a session whose sessionStorage calls do not throw.
C3_DirectAfterProceedWhenStorageWorks ==
  (ProceedCompleted /\ IsOpenLinkWithUrl(last) /\ storageMode = "working") => DirectOpen

C3_Witness ==
  /\ ProceedCompleted /\ IsOpenLinkWithUrl(last) /\ storageMode = "working"
  /\ DirectOpen
  /\ last.pre.query # "" /\ last.pre.index > 0

\* dismiss() returns to Idle, opens nothing and leaves the gate flag as it was
DismissFrame ==
  last'.op = "dismiss"
    => /\ last'.pre.target # NoModel
       /\ interstitialFor' = NoModel
       /\ last'.effects = <<>>
       /\ storage' = storage

\* C4 as stated: dismiss() returns to Idle with no open and the gate flag
\* unchanged, and the openLink that follows it on a record with a url enters
\* InterstitialPending again.
C4_DismissThenPending ==
  [][ /\ DismissFrame
      /\ (last.op = "dismiss" /\ IsOpenLinkWithUrl(last'))
           => interstitialFor' = last'.rec ]_vars

\* C4 amended: dismiss() returns to Idle with no open and the gate flag
\* unchanged; when the flag is unset, the openLink that follows it on a record
\* with a url enters InterstitialPending again.
C4_DismissThenPendingWhenUnset ==
  [][ /\ DismissFrame
      /\ (last.op = "dismiss" /\ IsOpenLinkWithUrl(last') /\ storage # "1")
           => interstitialFor' = last'.rec ]_vars

C4_Witness ==
  /\ last.afterDismiss
  /\ IsOpenLinkWithUrl(last) /\ last.pre.target = NoModel /\ last.pre.store # "1"
  /\ interstitialFor = last.rec

\* C5: once sessionStorage holds the gate flag, every step of the system
\* leaves it set.
C5_GateMonotone == [][storage = "1" => storage' = "1"]_vars

C5_Witness ==
  /\ storage = "1"
  /\ last.pre.store = "1"
  /\ last.op = "dismiss"

\* C6: in a session whose sessionStorage calls do not throw, the sponsor URL
\* is opened at most once.
C6_SponsorAtMostOnce == storageMode = "working" => sponsorOpens <= 1

C6_Witness ==
  /\ storageMode = "working" /\ sponsorOpens = 1
  /\ IsOpenLinkWithUrl(last) /\ DirectOpen
  /\ last.pre.target = NoModel

\* C7: in every render pass the cursor read by `current` is a position of
\* the visible sequence of that render.
C7_RenderedCursorInRange ==
  \A k \in 1..Len(last.rendered) :
    last.rendered[k] \in 0..(Len(visible(query)) - 1)

IsInversePair(a, b) ==
  \/ a = "next" /\ b = "prev"
  \/ a = "prev" /\ b = "next"

\* C8: an advance directly followed by a retreat, or a retreat directly
\* followed by an advance, on any input channels, brings the cursor back to
\* where it was before the first of the two.
C8_AdvanceRetreatInverse ==
  [][ IsInversePair(last.nav, last'.nav) => index' = last.pre.index ]_vars

\* ---------------------------------------------------------------------
\* Claims about the Filter Engine, under FilterSpec
\* ---------------------------------------------------------------------
IsBlank(s) == \A k \in 1..Len(s) : IsSpace(CharAt(s, k))

\* the query without its leading and trailing whitespace
Core(s) ==
  LET ks == {k \in 1..Len(s) : ~IsSpace(CharAt(s, k))}
  IN  IF ks = {} THEN ""
      ELSE SubSeq(s, CHOOSE k \in ks : \A j \in ks : k <= j,
                     CHOOSE k \in ks : \A j \in ks : k >= j)

\* t contains q, letter case ignored
ContainsIgnoringCase(t, q) ==
  \E k \in 0..(Len(t) - Len(q)) :
    \A j \in 1..Len(q) : LowerChar(CharAt(t, k + j)) = LowerChar(CharAt(q, j))

NameOrTagContains(m, q) ==
  \/ ContainsIgnoringCase(m.name, q)
  \/ \E k \in 1..Len(m.tags) : ContainsIgnoringCase(m.tags[k], q)

Evaluated == fpc = "done" /\ Len(fD) >= 1

\* C9: the result of the filter over a non-empty directory lists positions of
\* the directory in strictly increasing order (a subsequence: nothing twice,
\* nothing reordered), and is the whole directory when the query is empty or
\* whitespace only.
C9_FilterIsSubsequence ==
  Evaluated
    => /\ \A k \in 1..Len(fOut) : fOut[k] \in 1..Len(fD)
       /\ \A j, k \in 1..Len(fOut) : j < k => fOut[j] < fOut[k]
       /\ IsBlank(fq) => fOut = AllOf(fD)

C9_Witness ==
  /\ Evaluated /\ Len(fD) = 2 /\ fOut = <<2>>
  /\ fq # Core(fq)

MatchSet == {k \in 1..Len(fD) : NameOrTagContains(fD[k], Core(fq))}

\* C10: for a query that is not empty once trimmed, the result holds exactly
\* the records whose name or some tag contains it (case ignored) when there is
\* such a record, and the whole directory when there is none; it is never
\* empty over a non-empty directory.
C10_FilterMatchesOrFallsBack ==
  (Evaluated /\ Core(fq) # "")
    => /\ MatchSet # {} => /\ {fOut[k] : k \in 1..Len(fOut)} = MatchSet
                           /\ Len(fOut) = Cardinality(MatchSet)
       /\ MatchSet = {} => fOut = AllOf(fD)
       /\ Len(fOut) > 0

C10_Witness ==
  /\ Evaluated /\ Core(fq) # ""
  /\ MatchSet = {} /\ Len(fD) = 2 /\ fOut = <<1, 2>>

\* ---------------------------------------------------------------------
\* Claims about the Input Dispatcher, under Spec
\* ---------------------------------------------------------------------
IsWheel(e) == e.op = "wheel"
IsTouchEnd(e) == e.op = "touchend"
IsKey(e) == e.op = "key"

\* C11: a wheel event that arrives while the wheel lock is held is dropped:
\* it calls neither next nor prev, leaves the cursor and the lock as they
\* were and starts no timer; so wheel events make at most one next/prev call
\* between two releases of the lock.
C11_WheelDroppedWhileLocked ==
  /\ (IsWheel(last) /\ last.pre.lock)
       => /\ last.nav = "none"
          /\ index = last.pre.index
          /\ wheelLock
          /\ timers <= 1
  /\ last.wheelMoves <= 1

C11_Witness ==
  /\ IsWheel(last) /\ last.pre.lock
  /\ Abs(last.input[1]) > WheelThreshold
  /\ last.wheelMoves = 1
  /\ index = last.pre.index

\* end - start of a touch-end that has both coordinates
HasSwipe(e) == IsTouchEnd(e) /\ e.pre.touchY # <<>> /\ e.input # <<>>
SwipeDelta(e) == e.input[1] - e.pre.touchY[1]

\* C12: a touch-end with a recorded start calls next iff end - start < -40,
\* prev iff end - start > 40, and neither otherwise (at exactly 40 too).
C12_SwipeBeyondThreshold ==
  HasSwipe(last)
    => last.nav = IF SwipeDelta(last) < -TouchThreshold THEN "next"
                  ELSE IF SwipeDelta(last) > TouchThreshold THEN "prev"
                  ELSE "none"

InEffects(x, effects) == \E k \in 1..Len(effects) : effects[k] = x

\* C14: whichever sessionStorage calls throw, the interstitial target is null
\* or a record; an openLink whose read throws treats the flag as unset (the
\* record becomes the target, nothing is opened); a proceed whose write throws
\* still makes both opens and returns to Idle, leaving the stored flag as it
\* was, so that with the flag unset the next openLink offers the interstitial
\* again; and an openLink followed by proceed has opened the record's url.
C14_StorageFailuresDegrade ==
  [][ /\ interstitialFor' \in 0..Len(MODELS)
      /\ (IsOpenLinkWithUrl(last') /\ last'.failed)
           => /\ interstitialFor' = last'.rec
              /\ last'.effects = <<>>
      /\ (last'.op = "proceed" /\ last'.failed)
           => /\ storage' = storage
              /\ Opens(last'.effects) = <<Open(adUrl), Open(UrlOf(last'.rec))>>
              /\ interstitialFor' = NoModel
      /\ (last.op = "proceed" /\ last.failed /\ storage # "1" /\ IsOpenLinkWithUrl(last'))
           => interstitialFor' = last'.rec
      /\ (IsOpenLinkWithUrl(last) /\ last'.op = "proceed")
           => \/ InEffects(Open(UrlOf(last.rec)), last.effects)
              \/ InEffects(Open(UrlOf(last.rec)), last'.effects) ]_vars

C14_Witness ==
  /\ IsOpenLinkWithUrl(last)
  /\ ProceedCompleted /\ storage # "1"
  /\ interstitialFor = last.rec /\ last.pre.target = NoModel
  /\ ~last.failed

\* C15: every next/prev call, from whichever channel, moves the cursor
\* modulo max(len(VisibleSequence), 1) of the sequence visible at the event.
C15_ModulusIsVisibleLength ==
  last.nav # "none" => index = Moved(last.nav, last.pre.index, cycleLen(query))

\* C16: a wheel event takes the wheel lock only if it called next or prev; one
\* with |deltaY| <= 10 leaves the lock unheld.
C16_LockOnlyWhenMoved ==
  (IsWheel(last) /\ ~last.pre.lock)
    => /\ wheelLock => last.nav # "none"
       /\ Abs(last.input[1]) <= WheelThreshold => ~wheelLock

\* C17: after a touch-end (one that carries a coordinate) the recorded touch
\* start is null, and a touch-end that directly follows such a touch-end
\* leaves the cursor where it was.
C17_TouchStartCleared ==
  [][ /\ (IsTouchEnd(last') /\ last'.input # <<>>) => touchY' = <<>>
      /\ (IsTouchEnd(last) /\ last.input # <<>> /\ IsTouchEnd(last'))
           => index' = index ]_vars

IsBiographyOpen(e) == IsOpen(e) /\ ~IsSponsorOpen(e)

\* C19: the session starts with the gate unset (Init), and every biography URL
\* that is opened is either opened by a proceed() after that proceed()'s
\* sponsor open, or opened after a proceed() has opened the sponsor URL.
C19_SponsorBeforeBiography ==
  \A k \in 1..Len(last.effects) :
    IsBiographyOpen(last.effects[k])
      => \/ /\ last.op = "proceed"
            /\ k > 1
            /\ IsSponsorOpen(last.effects[1])
         \/ /\ last.op = "openLink"
            /\ ProceedCompleted

C19_Witness ==
  /\ last.op = "proceed" /\ sponsorOpens = 1
  /\ storageMode # "working"
  /\ IsBiographyOpen(last.effects[Len(last.effects)])

Pending == interstitialFor # NoModel

\* C20: while an interstitial is pending, next/prev calls and query edits
\* leave the pending target as it is; proceed() opens the url of the pending
\* (clicked) record and of no other record; openLink, dismiss and proceed
\* leave the cursor and the query as they are.
C20_PendingTargetFrame ==
  [][ /\ (Pending /\ (last'.nav # "none" \/ last'.op = "setQuery"))
           => interstitialFor' = interstitialFor
      /\ (Pending /\ last'.op = "proceed")
           => /\ InEffects(Open(UrlOf(interstitialFor)), last'.effects)
              /\ \A k \in 1..Len(last'.effects) :
                   IsBiographyOpen(last'.effects[k])
                     => last'.effects[k] = Open(UrlOf(interstitialFor))
      /\ last'.op \in {"openLink", "dismiss", "proceed"}
           => index' = index /\ query' = query ]_vars

C20_Witness ==
  /\ last.op = "proceed" /\ last.pre.target # NoModel
  /\ current(query, index) # NoModel
  /\ current(query, index) # last.pre.target
  /\ InEffects(Open(UrlOf(last.pre.target)), last.effects)
  /\ ~InEffects(Open(UrlOf(current(query, index))), last.effects)

\* C21: whenever the wheel lock is held exactly one reset timer is pending
\* (and none is pending while it is free); with the timer callback run fairly
\* a held lock is always released again; and a wheel event that finds the lock
\* free, as after a release, is processed: it takes the lock, starts the one
\* timer and calls next or prev as its deltaY says.
C21_LockReleasedByTimer ==
  /\ [](timers = IF wheelLock THEN 1 ELSE 0)
  /\ wheelLock ~> ~wheelLock
  /\ []((IsWheel(last) /\ ~last.pre.lock)
          => /\ wheelLock
             /\ last.nav = WheelNav(last.input[1]))

C21_Witness ==
  /\ IsWheel(last) /\ last.afterTimer
  /\ last.nav # "none" /\ index # last.pre.index
  /\ wheelLock /\ timers = 1

====
